---- MODULE Spec2Model ----
(***************************************************************************)
(* Line-of-sight calculator (calculate_los.py), candidate pair search      *)
(* (peak_pair_finder.py) and the batch driver (main.py).                   *)
(*                                                                         *)
(* Units.  Python floats are rendered as exact integers / rationals:       *)
(*   coordinates   micro-degrees (the 6th decimal printed by "{:.6f}")     *)
(*   elevations    decimetres (0.1 m)                                      *)
(*   distances     hectometres (0.1 km)                                    *)
(* A station coordinate of np.linspace is the rational num / (N-1).        *)
(* NaN is modelled.  Floating-point rounding is modelled for the two       *)
(* operations of the straight line whose operands are the peaks' own       *)
(* elevations (see Fl and LosAt); all other arithmetic is exact.            *)
(***************************************************************************)
EXTENDS Integers, Sequences, FiniteSets, TLC

VARIABLES
    peak1, peak2,        \* self.peak1, self.peak2 of each engine
    given,               \* the elevation_cache argument handed to the engines
    disk,                \* content of elevation_cache.json, or NoFile
    profileDir,          \* whether directory elevation_profiles/ exists
    eng,                 \* the fields of each LOSCalculator instance
    looked,              \* what _get_elevations returned, per engine
    calcRuns,            \* how often the body of _calculate ran, per engine
    diskReads,           \* how often elevation_cache.json was read
    ret,                 \* outcome of the last result-reading call, per engine
    calls,               \* number of result-reading calls made so far
    profiles,            \* files written by generate_elevation_profile
    work,                \* per engine: position inside a stepwise _calculate
    finderPeaks,         \* PeakPairFinder: the API's answer, _peaks, _peaks_loaded
    band, pairsOut,      \* get_peak_pairs: its arguments and its outcome
    bpairs, bcache, fut, doneOrder, statistics_lines,
    clear_count, blocked_count, completed_count, bpc   \* main.py batch loop

engineVars == <<peak1, peak2, given, disk, profileDir, eng, looked, calcRuns,
                diskReads, ret, calls, profiles, work>>
finderVars == <<finderPeaks, band, pairsOut>>
batchVars == <<bpairs, bcache, fut, doneOrder, statistics_lines,
               clear_count, blocked_count, completed_count, bpc>>
vars == <<engineVars, finderVars, batchVars>>

---------------------------------------------------------------------------
(* Bounds of the model *)

\* Number of stations along the path.  The program samples 200 stations
\* (calculate_los.py:46); the model samples this many, every formula below is
\* written for an arbitrary number of stations >= 2.
NUM_SAMPLES == 5

\* Result-reading calls made on one engine instance.
MaxCalls == 3

\* Peaks the Overpass API returns to the pair finder.
MaxPeaks == 3

\* Significant bits of a float.  A Python float carries 53; the model's
\* floats carry this many, over the unit of the elevations (decimetres), so
\* that every whole number of decimetres below 2^FLOAT_BITS is a float and
\* larger ones are floats when they are multiples of their unit in the last
\* place.
FLOAT_BITS == 16

---------------------------------------------------------------------------
(* Program constants *)

R_EARTH_KM == 6371
REFRACTION_NUM == 4
REFRACTION_DEN == 3
\* grid_resolution = 0.01 degrees, in micro-degrees
GRID_RESOLUTION == 10000

\* geopy's geodesic, rendered as a local flat projection near the equator:
\* hectometres per degree of latitude and of longitude.
HM_PER_DEG_LAT == 1106
HM_PER_DEG_LON == 1113

\* main.py: get_peak_pairs(min_distance_km=350, max_distance_km=600), in
\* hectometres
MAIN_MIN_DISTANCE == 3500
MAIN_MAX_DISTANCE == 6000

---------------------------------------------------------------------------
(* Arithmetic helpers *)

Abs(x) == IF x < 0 THEN -x ELSE x

Min2(a, b) == IF a < b THEN a ELSE b

RECURSIVE IsqrtBetween(_, _, _)
IsqrtBetween(n, lo, hi) ==
    \* largest r in lo..hi with r*r <= n, assuming lo*lo <= n
    IF lo >= hi THEN lo
    ELSE LET mid == (lo + hi + 1) \div 2
         IN  IF mid * mid <= n THEN IsqrtBetween(n, mid, hi)
             ELSE IsqrtBetween(n, lo, mid - 1)

Isqrt(n) == IsqrtBetween(n, 0, Min2(n, 46340))

\* Python's round() and "{:.6f}": round num/den (den > 0) to the nearest
\* integer, ties to the even one.
RoundHalfEven(num, den) ==
    LET q == num \div den
        r == num % den
    IN  IF 2 * r < den THEN q
        ELSE IF 2 * r > den THEN q + 1
        ELSE IF q % 2 = 0 THEN q ELSE q + 1

RECURSIVE Pow2(_)
Pow2(n) == IF n = 0 THEN 1 ELSE 2 * Pow2(n - 1)

\* Unit in the last place of a float of magnitude a >= 0.
RECURSIVE Ulp(_)
Ulp(a) == IF a < Pow2(FLOAT_BITS) THEN 1 ELSE 2 * Ulp(a \div 2)

\* The float nearest to the exact result x of a float operation, ties to the
\* even significand (IEEE 754 round-to-nearest-even).
Fl(x) ==
    LET u == Ulp(Abs(x))
        m == RoundHalfEven(Abs(x), u) * u
    IN  IF x < 0 THEN -m ELSE m

\* floor(k * a / y) for k, a >= 0 and y > 0 without forming k * a
\* (k * (a % y) stays small).
MulDivFloor(k, a, y) == k * (a \div y) + (k * (a % y)) \div y

MulDivCeil(k, a, y) ==
    k * (a \div y) + ((k * (a % y)) + y - 1) \div y

---------------------------------------------------------------------------
(* Numbers that may be NaN *)

NaN == [nan |-> TRUE, v |-> 0]

Val(x) == [nan |-> FALSE, v |-> x]

---------------------------------------------------------------------------
(* Cache keys: the string "{lat:.6f},{lon:.6f}" *)

\* "{x:.6f}" of a float whose value is num/den micro-degrees: the sign
\* character is printed for every negative value, also when the digits round
\* to zero ("-0.000000"); the digits are the magnitude rounded half-even.
\* Rendered as <<has minus sign, digits as an integer>>.
FormatCoord(num, den) == <<num < 0, RoundHalfEven(Abs(num), den)>>

\* Mutant of GridIndex: int(x / grid_resolution) * ... would truncate
\* downwards instead of rounding to the nearest grid point.
GridIndexFloor(num, den) == num \div (den * GRID_RESOLUTION)

\* round(x / grid_resolution): a Python int
GridIndex(num, den) == RoundHalfEven(num, den * GRID_RESOLUTION)

\* nearest = round(x / grid_resolution) * grid_resolution, as num/1
NearestGrid(num, den) == GridIndex(num, den) * GRID_RESOLUTION

\* coord_key = f"{nearest_lat:.6f},{nearest_lon:.6f}"
CoordKey(latNum, lonNum, den) ==
    <<FormatCoord(NearestGrid(latNum, den), 1),
      FormatCoord(NearestGrid(lonNum, den), 1)>>

\* exact_key = f"{lat:.6f},{lon:.6f}"
ExactKey(latNum, lonNum, den) ==
    <<FormatCoord(latNum, den), FormatCoord(lonNum, den)>>

\* Mutant of GetElevationAt: a miss is remembered in the dictionary
\* (self.elevation_cache.setdefault(coord_key, 0.0)).
GetElevationAtMemo(cache, latNum, lonNum, den) ==
    LET coord_key == <<FormatCoord(GridIndex(latNum, den) * GRID_RESOLUTION, 1),
                       FormatCoord(GridIndex(lonNum, den) * GRID_RESOLUTION, 1)>>
        exact_key == <<FormatCoord(latNum, den), FormatCoord(lonNum, den)>>
        zero == [v |-> 0, int |-> FALSE]
    IN  IF coord_key \in DOMAIN cache
        THEN [elev |-> cache[coord_key], cache |-> cache]
        ELSE IF exact_key \in DOMAIN cache
        THEN [elev |-> cache[exact_key], cache |-> cache]
        ELSE [elev |-> zero,
              cache |-> [k \in DOMAIN cache \cup {coord_key} |->
                            IF k \in DOMAIN cache THEN cache[k] ELSE zero]]

\* The elevation appended for one station and the dictionary afterwards
\* (membership tests and subscripting leave the dictionary as it was).
\* A cache value is [v |-> decimetres, int |-> whether it is a Python int];
\* the default 0.0 is a float.
GetElevationAt(cache, latNum, lonNum, den) ==
    LET coord_key == CoordKey(latNum, lonNum, den)
        exact_key == ExactKey(latNum, lonNum, den)
    IN  IF coord_key \in DOMAIN cache
        THEN [elev |-> cache[coord_key], cache |-> cache]
        ELSE IF exact_key \in DOMAIN cache
        THEN [elev |-> cache[exact_key], cache |-> cache]
        ELSE [elev |-> [v |-> 0, int |-> FALSE], cache |-> cache]

\* np.linspace(a, b, NUM_SAMPLES)[s-1] as a numerator over NUM_SAMPLES - 1
Linspace(a, b, s) == a * (NUM_SAMPLES - 1) + (s - 1) * (b - a)

Stations == 1..NUM_SAMPLES

\* _get_elevations: the loop over zip(latitudes, longitudes), stations
\* from s to NUM_SAMPLES, threading the dictionary through the lookups.
RECURSIVE GetElevationsFrom(_, _, _, _, _)
GetElevationsFrom(s, acc, cache, p, q) ==
    IF s > NUM_SAMPLES THEN [elevations |-> acc, cache |-> cache]
    ELSE LET r == GetElevationAt(cache, Linspace(p.lat, q.lat, s),
                                 Linspace(p.lon, q.lon, s), NUM_SAMPLES - 1)
         IN  GetElevationsFrom(s + 1, Append(acc, r.elev), r.cache, p, q)

GetElevations(cache, p, q) == GetElevationsFrom(1, <<>>, cache, p, q)

---------------------------------------------------------------------------
(* Geometry *)

\* geodesic(coord1, coord2).km, in hectometres
Geodesic(p, q) ==
    LET dy == ((Abs(p.lat - q.lat) \div 100) * HM_PER_DEG_LAT) \div 10000
        dx == ((Abs(p.lon - q.lon) \div 100) * HM_PER_DEG_LON) \div 10000
    IN  Isqrt(dy * dy + dx * dx)

\* 3.57 * (sqrt(elev1) + sqrt(elev2)), in units of 0.0001 km; np.sqrt of a
\* negative number is nan
LosLimit(p, q) ==
    IF p.elevation_m < 0 \/ q.elevation_m < 0 THEN NaN
    ELSE Val(357 * (Isqrt(1000 * p.elevation_m) + Isqrt(1000 * q.elevation_m)))

\* A value stored into an int64 array is truncated toward zero to a whole
\* number of metres.
TruncToInt(x) == IF x < 0 THEN -((-x) \div 10) * 10 ELSE (x \div 10) * 10

\* np.array(terrain_elevations) followed by the two endpoint assignments.
\* The array is int64 when every element of the list is a Python int, and
\* float64 otherwise.
TerrainArray(elevations, p, q) ==
    LET dtype == IF \A s \in DOMAIN elevations : elevations[s].int
                 THEN "int64" ELSE "float64"
        Store(x) == IF dtype = "int64" THEN TruncToInt(x) ELSE x
    IN  [dtype |-> dtype,
         a |-> [s \in DOMAIN elevations |->
                  IF s = NUM_SAMPLES THEN Store(q.elevation_m)
                  ELSE IF s = 1 THEN Store(p.elevation_m)
                  ELSE elevations[s].v]]

\* distances = np.linspace(0, D, NUM_SAMPLES), numerators over NUM_SAMPLES-1
Distances(D) == [s \in Stations |-> D * (s - 1)]

\* (self.peak2["elevation_m"] - self.peak1["elevation_m"]): one float
\* subtraction, evaluated before it is multiplied with the array.
ElevationDiff(p, q) == Fl(q.elevation_m - p.elevation_m)

\* One element of los_line = straight_line + earth_bulge_m.  With d = D*i/(N-1):
\*   straight  = sn / (N-1),  sn = e1*(N-1) + diff*i,  diff = ElevationDiff
\* At the last station distances / D is exactly 1.0 and the bulge is -0.0,
\* so the element is the float sum e1 + diff.  At the first station the
\* product is 0.0 and the element is e1.
\*   bulge     = -(d*1000)*((D-d)*1000) / (2*R_effective*1000)  metres
\*             = -(100*REFRACTION_DEN * D^2 * i*(N-1-i))
\*                / (2*REFRACTION_NUM*R_EARTH_KM * (N-1)^2)     decimetres
\* kept exactly as [sn, dsq = D^2, m = i*(N-1-i)].  D = 0 divides 0 by 0:
\* every element is nan.
LosAt(D, p, q, s) ==
    IF D = 0 THEN [nan |-> TRUE, sn |-> 0, dsq |-> 0, m |-> 0]
    ELSE [nan |-> FALSE,
          sn  |-> IF s = NUM_SAMPLES
                  THEN Fl(p.elevation_m + ElevationDiff(p, q)) * (NUM_SAMPLES - 1)
                  ELSE p.elevation_m * (NUM_SAMPLES - 1)
                         + ElevationDiff(p, q) * (s - 1),
          dsq |-> D * D,
          m   |-> (s - 1) * (NUM_SAMPLES - s)]

\* _compute_los_line
ComputeLosLine(D, p, q) ==
    [distances |-> Distances(D),
     los_line  |-> [s \in Stations |-> LosAt(D, p, q, s)]]

BulgeK == 100 * REFRACTION_DEN

BulgeY == 2 * REFRACTION_NUM * R_EARTH_KM * (NUM_SAMPLES - 1)

\* Mutant of TerrainLeLos: the comparison written with < instead of <=.
TerrainLtLos(t, los) ==
    /\ ~los.nan
    /\ t * (NUM_SAMPLES - 1) - los.sn < -MulDivCeil(BulgeK * los.m, los.dsq, BulgeY)

\* terrain <= los, one element of self._terrain_array <= self._los_line;
\* a comparison with nan is False.
\*   t <= sn/(N-1) - K*dsq*m / (Y*(N-1))
\*   <=>  t*(N-1) - sn <= -(K*m*dsq / Y)   (left side an integer)
TerrainLeLos(t, los) ==
    /\ ~los.nan
    /\ t * (NUM_SAMPLES - 1) - los.sn <= -MulDivCeil(BulgeK * los.m, los.dsq, BulgeY)

\* (midpoint_distance_km * 1000) ** 2 / (2 * R_effective * 1000), decimetres,
\* = 25*REFRACTION_DEN * D^2 / (2*REFRACTION_NUM*R_EARTH_KM), kept exactly
\* as whole part q and remainder r over that denominator.
CurvatureDrop(D) ==
    LET k == 25 * REFRACTION_DEN
        y == 2 * REFRACTION_NUM * R_EARTH_KM
    IN  [q |-> MulDivFloor(k, D * D, y), r |-> (k * ((D * D) % y)) % y]

\* np.all(self._terrain_array <= self._los_line)
AllClear(terrain, los_line) ==
    \A s \in DOMAIN terrain.a : TerrainLeLos(terrain.a[s], los_line[s])

---------------------------------------------------------------------------
(* Inputs: peaks, caches, cache files *)

Peak(n, la, lo, el) == [name |-> n, lat |-> la, lon |-> lo, elevation_m |-> el]

\* Distinct peaks are either at identical coordinates or at least one
\* hectometre apart.
Peaks ==
    { Peak("Alpha Peak",   0,       0,      43000),
      Peak("Bravo Peak",   4020000, 0,      44005),
      Peak("Mount Charlie", 4020000, -30000, 44000),
      Peak("Delta Peak",   0,       0,      10000),
      Peak("Echo Point",   1000000, -1,     -5),
      Peak("Foxtrot",      0,       -30000, 43007) }

MkKey(la, lo) == << <<la < 0, Abs(la)>>, <<lo < 0, Abs(lo)>> >>

\* the key "0.250000,-0.000000"
NegZeroKey(la) == << <<FALSE, la>>, <<TRUE, 0>> >>

F(x) == [v |-> x, int |-> FALSE]

I(x) == [v |-> x, int |-> TRUE]

EmptyCache == [k \in {} |-> F(0)]

GridRow == {MkKey(0, 0), MkKey(1000000, 0), MkKey(2010000, 0),
            MkKey(3020000, 0), MkKey(4020000, 0)}

FlatIntCache == [k \in GridRow |-> I(10000)]

RidgeCache ==
    [k \in GridRow |-> IF k = MkKey(2010000, 0) THEN F(20000) ELSE F(10000)]

ExactCache == [k \in {MkKey(1005000, 0)} |-> F(30000)]

BothCache ==
    [k \in {MkKey(1000000, 0), MkKey(1005000, 0)} |->
        IF k = MkKey(1000000, 0) THEN F(500) ELSE F(30000)]

OddNeighbourCache == [k \in {MkKey(1010000, 0)} |-> F(30000)]

NegZeroCache == [k \in {NegZeroKey(250000)} |-> F(30000)]

Caches == {EmptyCache, FlatIntCache, RidgeCache, ExactCache, BothCache,
           OddNeighbourCache, NegZeroCache}

\* The elevation_cache argument: None, or a dictionary.
NoneArg == [none |-> TRUE, map |-> EmptyCache]

DictArg(c) == [none |-> FALSE, map |-> c]

\* The file elevation_cache.json: absent, or holding a dictionary.
NoFile == [exists |-> FALSE, map |-> EmptyCache]

File(c) == [exists |-> TRUE, map |-> c]

Disks == {NoFile, File(RidgeCache), File(ExactCache)}

---------------------------------------------------------------------------
(* LOSCalculator *)

\* _load_cache
LoadCache(d) == IF d.exists THEN d.map ELSE EmptyCache

\* elevation_cache or self._load_cache(): None and the empty dictionary are
\* both falsy.  ref tells whether the engine holds the caller's dictionary
\* or one of its own.
ChooseCache(g, d) ==
    IF g.none \/ DOMAIN g.map = {}
    THEN [ref |-> "own", own |-> LoadCache(d), read |-> d.exists]
    ELSE [ref |-> "given", own |-> EmptyCache, read |-> FALSE]

\* __init__
Construct(g, d) ==
    LET c == ChooseCache(g, d)
    IN  [cacheRef |-> c.ref, own |-> c.own,
         calculated |-> FALSE,
         distance_km |-> 0,
         los_limit_km |-> Val(0),
         terrain_array |-> [dtype |-> "float64", a |-> <<>>],
         distances |-> <<>>,
         los_line |-> <<>>,
         curvature_drop_m |-> [q |-> 0, r |-> 0],
         is_clear |-> FALSE]

\* self.elevation_cache of engine record e
CacheOf(e, g) == IF e.cacheRef = "given" THEN g.map ELSE e.own

\* Mutant of Computed: the final self._calculated = True is missing.
ComputedNoFlag(e, p, q, elevations) ==
    LET D == Geodesic(p, q)
        terrain == TerrainArray(elevations, p, q)
        ll == ComputeLosLine(D, p, q)
    IN  [e EXCEPT !.distance_km = D,
                  !.los_limit_km = LosLimit(p, q),
                  !.terrain_array = terrain,
                  !.distances = ll.distances,
                  !.los_line = ll.los_line,
                  !.curvature_drop_m = CurvatureDrop(D),
                  !.is_clear = AllClear(terrain, ll.los_line)]

\* The assignments of _calculate after the early return, from the list
\* _get_elevations returned.
Computed(e, p, q, elevations) ==
    LET D == Geodesic(p, q)
        terrain == TerrainArray(elevations, p, q)
        ll == ComputeLosLine(D, p, q)
    IN  [e EXCEPT !.distance_km = D,
                  !.los_limit_km = LosLimit(p, q),
                  !.terrain_array = terrain,
                  !.distances = ll.distances,
                  !.los_line = ll.los_line,
                  !.curvature_drop_m = CurvatureDrop(D),
                  !.is_clear = AllClear(terrain, ll.los_line),
                  !.calculated = TRUE]

\* _calculate: [eng, cache, ran, elevations]
Calculate(e, p, q, g, oldLooked) ==
    IF e.calculated
    THEN [eng |-> e, cache |-> CacheOf(e, g), ran |-> 0, elevations |-> oldLooked]
    ELSE LET r == GetElevations(CacheOf(e, g), p, q)
         IN  [eng |-> Computed(e, p, q, r.elevations), cache |-> r.cache,
              ran |-> 1, elevations |-> r.elevations]

\* if not self._calculated: self._calculate()
EnsureCalculated(e, p, q, g, oldLooked) ==
    IF ~e.calculated
    THEN Calculate(e, p, q, g, oldLooked)
    ELSE [eng |-> e, cache |-> CacheOf(e, g), ran |-> 0, elevations |-> oldLooked]

\* name.lower().replace(" ", "_")
Slug(n) ==
    CASE n = "Alpha Peak"    -> "alpha_peak"
      [] n = "Bravo Peak"    -> "bravo_peak"
      [] n = "Mount Charlie" -> "mount_charlie"
      [] n = "Delta Peak"    -> "delta_peak"
      [] n = "Echo Point"    -> "echo_point"
      [] n = "Foxtrot"       -> "foxtrot"

\* f"elevation_profiles/{name1}_to_{name2}_{int(round(distance_km))}km.png"
ProfileFilename(e, p, q) ==
    <<Slug(p.name), Slug(q.name), RoundHalfEven(e.distance_km, 10)>>

\* The string get_statistics returns, field by field: distance "{:.2f}" km
\* (hundredths), LOS limit "{:.2f}" km, curvature drop "{:.1f}" m
\* (decimetres), and CLEAR / BLOCKED.
StatisticsOf(e, p, q) ==
    LET y == 2 * REFRACTION_NUM * R_EARTH_KM
        c == e.curvature_drop_m
    IN  [peak1 |-> <<p.name, p.lat, p.lon>>,
         peak2 |-> <<q.name, q.lat, q.lon>>,
         distance |-> e.distance_km * 10,
         los_limit |-> IF e.los_limit_km.nan THEN NaN
                       ELSE Val(RoundHalfEven(e.los_limit_km.v, 100)),
         curvature |-> IF 2 * c.r < y THEN c.q
                       ELSE IF 2 * c.r > y THEN c.q + 1
                       ELSE IF c.q % 2 = 0 THEN c.q ELSE c.q + 1,
         verdict |-> IF e.is_clear THEN "CLEAR" ELSE "BLOCKED"]

NoStats ==
    [peak1 |-> <<"", 0, 0>>, peak2 |-> <<"", 0, 0>>, distance |-> 0,
     los_limit |-> Val(0), curvature |-> 0, verdict |-> ""]

\* error = "" when the call returned; otherwise the exception it raised
NoRet == [op |-> "none", error |-> "", verdict |-> FALSE, stats |-> NoStats]

Engines == DOMAIN eng

\* The state left by the lazy computation of engine k inside a call.
Settle(k, r) ==
    /\ eng' = [eng EXCEPT ![k] =
                 IF eng[k].cacheRef = "own" THEN [r.eng EXCEPT !.own = r.cache]
                 ELSE r.eng]
    /\ given' = IF eng[k].cacheRef = "given" THEN [given EXCEPT !.map = r.cache]
                ELSE given
    /\ looked' = [looked EXCEPT ![k] = r.elevations]
    /\ calcRuns' = [calcRuns EXCEPT ![k] = @ + r.ran]
    /\ calls' = [calls EXCEPT ![k] = @ + 1]

CanCall(k) == calls[k] < MaxCalls /\ work[k].pc = "idle"

\* is_line_of_sight_clear
IsLineOfSightClear(k) ==
    /\ CanCall(k)
    /\ LET r == EnsureCalculated(eng[k], peak1[k], peak2[k], given, looked[k])
       IN  /\ Settle(k, r)
           /\ ret' = [ret EXCEPT ![k] =
                        [NoRet EXCEPT !.op = "is_line_of_sight_clear",
                                      !.verdict = r.eng.is_clear]]
    /\ UNCHANGED <<peak1, peak2, disk, profileDir, diskReads, profiles, work>>
    /\ UNCHANGED <<finderVars, batchVars>>

\* get_statistics
GetStatistics(k) ==
    /\ CanCall(k)
    /\ LET r == EnsureCalculated(eng[k], peak1[k], peak2[k], given, looked[k])
       IN  /\ Settle(k, r)
           /\ ret' = [ret EXCEPT ![k] =
                        [NoRet EXCEPT !.op = "get_statistics",
                                      !.stats = StatisticsOf(r.eng, peak1[k], peak2[k])]]
    /\ UNCHANGED <<peak1, peak2, disk, profileDir, diskReads, profiles, work>>
    /\ UNCHANGED <<finderVars, batchVars>>

\* generate_elevation_profile: plt.savefig raises when the directory
\* elevation_profiles/ is missing.
GenerateElevationProfile(k) ==
    /\ CanCall(k)
    /\ LET r == EnsureCalculated(eng[k], peak1[k], peak2[k], given, looked[k])
       IN  /\ Settle(k, r)
           /\ ret' = [ret EXCEPT ![k] =
                        [NoRet EXCEPT !.op = "generate_elevation_profile",
                                      !.error = IF profileDir THEN ""
                                                ELSE "FileNotFoundError"]]
           /\ profiles' = IF profileDir
                          THEN profiles \cup {ProfileFilename(r.eng, peak1[k], peak2[k])}
                          ELSE profiles
    /\ UNCHANGED <<peak1, peak2, disk, profileDir, diskReads, work>>
    /\ UNCHANGED <<finderVars, batchVars>>

---------------------------------------------------------------------------
(* Idle values of the parts a specification does not exercise *)

IdleWork == [pc |-> "idle", s |-> 0, acc |-> <<>>, op |-> "none"]

FinderIdle ==
    /\ finderPeaks = [api |-> <<>>, peaks |-> <<>>, loaded |-> FALSE]
    /\ band = [min |-> 0, max |-> 0]
    /\ pairsOut = [called |-> FALSE, error |-> "", pairs |-> <<>>]

BatchIdle ==
    /\ bpairs = <<>>
    /\ bcache = EmptyCache
    /\ fut = <<>>
    /\ doneOrder = <<>>
    /\ statistics_lines = <<>>
    /\ clear_count = 0
    /\ blocked_count = 0
    /\ completed_count = 0
    /\ bpc = "idle"

\* The engines E constructed over one cache argument and one file.
EngineInit(E, pairs, args, disks) ==
    /\ peak1 \in [E -> {pr[1] : pr \in pairs}]
    /\ peak2 \in [E -> {pr[2] : pr \in pairs}]
    /\ \A k \in E : <<peak1[k], peak2[k]>> \in pairs
    /\ given \in args
    /\ disk \in disks
    /\ profileDir \in BOOLEAN
    /\ eng = [k \in E |-> Construct(given, disk)]
    /\ looked = [k \in E |-> <<>>]
    /\ calcRuns = [k \in E |-> 0]
    /\ diskReads = Cardinality({k \in E : ChooseCache(given, disk).read})
    /\ ret = [k \in E |-> NoRet]
    /\ calls = [k \in E |-> 0]
    /\ profiles = {}
    /\ work = [k \in E |-> IdleWork]

---------------------------------------------------------------------------
(* One engine instance and its three result-reading operations *)

Init ==
    /\ EngineInit({1}, Peaks \X Peaks,
                  {NoneArg} \cup {DictArg(c) : c \in Caches}, Disks)
    /\ FinderIdle
    /\ BatchIdle

Next ==
    \/ IsLineOfSightClear(1)
    \/ GetStatistics(1)
    \/ GenerateElevationProfile(1)

Spec == Init /\ [][Next]_vars

---------------------------------------------------------------------------
(* Claims about one engine instance *)

\* Terrain t does not pierce sight-line element los: t <= sn/(N-1) - X/(Y*(N-1))
\* with X = BulgeK*m*dsq, stated through the whole part of X/Y and whether
\* X/Y is whole.
NotAbove(t, los) ==
    LET L == t * (NUM_SAMPLES - 1) - los.sn
        whole == MulDivFloor(BulgeK * los.m, los.dsq, BulgeY)
        isWhole == ((BulgeK * los.m) * (los.dsq % BulgeY)) % BulgeY = 0
    IN  /\ ~los.nan
        /\ IF isWhole THEN L <= -whole ELSE L < -whole

\* C1: once computed, the verdict is true exactly when at every station the
\* terrain elevation is less than or equal to the sight-line elevation.
C1_VerdictIffEveryStationClear ==
    \A k \in Engines :
        eng[k].calculated =>
            (eng[k].is_clear <=>
                \A s \in Stations :
                    NotAbove(eng[k].terrain_array.a[s], eng[k].los_line[s]))

\* C1 witness: a clear verdict with a station where terrain equals the line.
C1_Witness ==
    \E k \in Engines :
        /\ eng[k].calculated
        /\ eng[k].is_clear
        /\ ret[k].op = "is_line_of_sight_clear"
        /\ \E s \in Stations :
              /\ ~eng[k].los_line[s].nan
              /\ eng[k].los_line[s].m = 0
              /\ eng[k].terrain_array.a[s] * (NUM_SAMPLES - 1) = eng[k].los_line[s].sn

\* A blocked verdict caused by exactly one station above the line.
C1_SingleStationBlocks ==
    \E k \in Engines :
        /\ eng[k].calculated
        /\ ~eng[k].is_clear
        /\ Cardinality({s \in Stations :
              ~NotAbove(eng[k].terrain_array.a[s], eng[k].los_line[s])}) = 1

\* The dictionary engine k looks elevations up in.
EngineCache(k) == CacheOf(eng[k], given)

\* g (micro-degrees) is a multiple of the grid resolution nearest to num/den.
IsNearestMultiple(g, num, den) ==
    /\ g % GRID_RESOLUTION = 0
    /\ 2 * Abs(num - g * den) <= GRID_RESOLUTION * den

\* d is a whole number of micro-degrees nearest to |num/den|.
IsNearestDigits(d, num, den) == 2 * Abs(Abs(num) - d * den) <= den

GridCandidates(num, den) ==
    LET lo == (num \div (den * GRID_RESOLUTION)) * GRID_RESOLUTION
    IN  {g \in {lo, lo + GRID_RESOLUTION} : IsNearestMultiple(g, num, den)}

DigitCandidates(num, den) ==
    LET lo == Abs(num) \div den
    IN  {d \in {lo, lo + 1} : IsNearestDigits(d, num, den)}

\* The fallback chain of station s of engine k over dictionary c, for a choice
\* of nearest grid point (gla, glo) and nearest printed digits (dla, dlo).
ChainValue(c, k, s, gla, glo, dla, dlo) ==
    LET quantized == << <<gla < 0, Abs(gla)>>, <<glo < 0, Abs(glo)>> >>
        raw == << <<Linspace(peak1[k].lat, peak2[k].lat, s) < 0, dla>>,
                  <<Linspace(peak1[k].lon, peak2[k].lon, s) < 0, dlo>> >>
    IN  IF quantized \in DOMAIN c THEN c[quantized]
        ELSE IF raw \in DOMAIN c THEN c[raw]
        ELSE [v |-> 0, int |-> FALSE]

\* C3: every station's lookup returned the value under the key of the
\* coordinates rounded to the nearest grid multiple if present, otherwise the
\* value under the key of the raw coordinates if present, otherwise 0.0; and
\* the two operations that only read results never raise.
C3_LookupChain ==
    \A k \in Engines :
        /\ eng[k].calculated =>
             \A s \in Stations :
                LET la == Linspace(peak1[k].lat, peak2[k].lat, s)
                    lo == Linspace(peak1[k].lon, peak2[k].lon, s)
                    den == NUM_SAMPLES - 1
                IN  \E gla \in GridCandidates(la, den), glo \in GridCandidates(lo, den),
                       dla \in DigitCandidates(la, den), dlo \in DigitCandidates(lo, den) :
                        looked[k][s] = ChainValue(EngineCache(k), k, s, gla, glo, dla, dlo)
        /\ ret[k].op \in {"is_line_of_sight_clear", "get_statistics"} => ret[k].error = ""

\* C3 witness: a station answered by the raw-coordinate key because the
\* quantized key is absent, and another answered by the default.
C3_Witness ==
    \E k \in Engines :
        /\ eng[k].calculated
        /\ \E s \in Stations :
              LET la == Linspace(peak1[k].lat, peak2[k].lat, s)
                  lo == Linspace(peak1[k].lon, peak2[k].lon, s)
              IN  /\ CoordKey(la, lo, NUM_SAMPLES - 1) \notin DOMAIN EngineCache(k)
                  /\ ExactKey(la, lo, NUM_SAMPLES - 1) \in DOMAIN EngineCache(k)
                  /\ looked[k][s] = EngineCache(k)[ExactKey(la, lo, NUM_SAMPLES - 1)]
                  /\ looked[k][s].v # 0
        /\ \E s \in Stations : looked[k][s] = [v |-> 0, int |-> FALSE]

\* C4: after an evaluation, station 0 carries the first peak's elevation, the
\* last station the second peak's, and every other station what the lookup
\* returned.
C4_EndpointsOverridden ==
    \A k \in Engines :
        eng[k].calculated =>
            /\ eng[k].terrain_array.a[1] = peak1[k].elevation_m
            /\ eng[k].terrain_array.a[NUM_SAMPLES] = peak2[k].elevation_m
            /\ \A s \in 2..(NUM_SAMPLES - 1) :
                  eng[k].terrain_array.a[s] = looked[k][s].v

SameCoordinates(k) ==
    peak1[k].lat = peak2[k].lat /\ peak1[k].lon = peak2[k].lon

\* C5: a call on a pair with identical coordinates ends in
\* DegenerateGeometryError and returns no verdict or result.
C5_DegenerateRaises ==
    \A k \in Engines :
        (SameCoordinates(k) /\ calls[k] > 0) =>
            ret[k].error = "DegenerateGeometryError"

\* C7: with an empty dictionary supplied, every station lookup returns 0.0,
\* nothing is raised by the lookups, and elevation_cache.json is never read.
C7_EmptyCacheFallsBack ==
    (~given.none /\ DOMAIN given.map = {}) =>
        /\ diskReads = 0
        /\ \A k \in Engines :
              eng[k].calculated =>
                 \A s \in Stations : looked[k][s] = [v |-> 0, int |-> FALSE]

\* The fields _calculate computes.
Results(e) ==
    <<e.distance_km, e.los_limit_km, e.curvature_drop_m, e.terrain_array,
      e.distances, e.los_line, e.is_clear>>

\* C8: the body of _calculate runs once, on the first result-reading call; a
\* computed engine stays computed, its stored results never change, and
\* every call of is_line_of_sight_clear returns the stored verdict.
C8_ComputedOnce ==
    [][\A k \in Engines :
          /\ calcRuns'[k] = (IF calls'[k] > 0 THEN 1 ELSE 0)
          /\ eng'[k].calculated <=> calls'[k] > 0
          /\ eng[k].calculated =>
                /\ eng'[k].calculated
                /\ Results(eng'[k]) = Results(eng[k])
                /\ ret'[k].op = "is_line_of_sight_clear" =>
                      ret'[k].verdict = eng[k].is_clear]_vars

\* C8 witness: three calls made, the body ran once.
C8_Witness ==
    \E k \in Engines :
        /\ calls[k] = MaxCalls
        /\ calcRuns[k] = 1
        /\ eng[k].calculated
        /\ ret[k].op = "is_line_of_sight_clear"

---------------------------------------------------------------------------
(* Several engines over one dictionary, their evaluations interleaved      *)
(* station by station                                                      *)

\* A result-reading call that finds the engine uncomputed enters _calculate.
BeginCalculate(k, op) ==
    /\ CanCall(k)
    /\ ~eng[k].calculated
    /\ work' = [work EXCEPT ![k] = [pc |-> "lookup", s |-> 1, acc |-> <<>>, op |-> op]]
    /\ UNCHANGED <<peak1, peak2, given, disk, profileDir, eng, looked, calcRuns,
                   diskReads, ret, calls, profiles>>
    /\ UNCHANGED <<finderVars, batchVars>>

\* One iteration of the loop of _get_elevations.
LookupStep(k) ==
    /\ work[k].pc = "lookup"
    /\ work[k].s <= NUM_SAMPLES
    /\ LET s == work[k].s
           r == GetElevationAt(CacheOf(eng[k], given),
                               Linspace(peak1[k].lat, peak2[k].lat, s),
                               Linspace(peak1[k].lon, peak2[k].lon, s),
                               NUM_SAMPLES - 1)
       IN  /\ work' = [work EXCEPT ![k].s = s + 1, ![k].acc = Append(@, r.elev)]
           /\ eng' = IF eng[k].cacheRef = "own"
                     THEN [eng EXCEPT ![k].own = r.cache] ELSE eng
           /\ given' = IF eng[k].cacheRef = "given"
                       THEN [given EXCEPT !.map = r.cache] ELSE given
    /\ UNCHANGED <<peak1, peak2, disk, profileDir, looked, calcRuns,
                   diskReads, ret, calls, profiles>>
    /\ UNCHANGED <<finderVars, batchVars>>

\* The rest of _calculate and the return of the calling operation.
FinishCalculate(k) ==
    /\ work[k].pc = "lookup"
    /\ work[k].s > NUM_SAMPLES
    /\ LET e == Computed(eng[k], peak1[k], peak2[k], work[k].acc)
       IN  /\ eng' = [eng EXCEPT ![k] = e]
           /\ looked' = [looked EXCEPT ![k] = work[k].acc]
           /\ calcRuns' = [calcRuns EXCEPT ![k] = @ + 1]
           /\ calls' = [calls EXCEPT ![k] = @ + 1]
           /\ ret' = [ret EXCEPT ![k] =
                 IF work[k].op = "is_line_of_sight_clear"
                 THEN [NoRet EXCEPT !.op = work[k].op, !.verdict = e.is_clear]
                 ELSE [NoRet EXCEPT !.op = work[k].op,
                                    !.stats = StatisticsOf(e, peak1[k], peak2[k])]]
    /\ work' = [work EXCEPT ![k] = IdleWork]
    /\ UNCHANGED <<peak1, peak2, given, disk, profileDir, diskReads, profiles>>
    /\ UNCHANGED <<finderVars, batchVars>>

ConcPairs ==
    { <<p, q>> \in Peaks \X Peaks :
        /\ p.name \in {"Alpha Peak", "Bravo Peak", "Foxtrot"}
        /\ q.name \in {"Bravo Peak", "Echo Point", "Alpha Peak"}
        /\ p # q }

ConcInit ==
    /\ EngineInit({1, 2}, ConcPairs,
                  {NoneArg, DictArg(ExactCache), DictArg(RidgeCache)},
                  {NoFile, File(RidgeCache)})
    /\ <<peak1[1], peak2[1]>> # <<peak1[2], peak2[2]>>
    /\ profileDir
    /\ FinderIdle
    /\ BatchIdle

ConcNext ==
    \E k \in {1, 2} :
        \/ BeginCalculate(k, "is_line_of_sight_clear")
        \/ BeginCalculate(k, "get_statistics")
        \/ LookupStep(k)
        \/ FinishCalculate(k)
        \/ IsLineOfSightClear(k)
        \/ GetStatistics(k)

ConcSpec == ConcInit /\ [][ConcNext]_vars

\* The engine an evaluation of pair k alone, over the dictionary as it is
\* now, ends with.
Alone(k) ==
    LET e0 == Construct(given, disk)
    IN  Computed(e0, peak1[k], peak2[k],
                 GetElevations(CacheOf(e0, given), peak1[k], peak2[k]).elevations)

\* C10: no step of an evaluation modifies the shared dictionary, the file or
\* a peak, and whatever the interleaving each engine's computed results,
\* returned verdict and returned statistics are those of evaluating its pair
\* alone.
C10_IsolatedEvaluations ==
    /\ [][/\ given' = given
          /\ disk' = disk
          /\ peak1' = peak1
          /\ peak2' = peak2
          /\ \A k \in Engines : eng'[k].own = eng[k].own]_vars
    /\ [](\A k \in Engines :
            /\ eng[k].calculated => Results(eng[k]) = Results(Alone(k))
            /\ (ret[k].op = "is_line_of_sight_clear" /\ ret[k].error = "") =>
                  ret[k].verdict = Alone(k).is_clear
            /\ (ret[k].op = "get_statistics" /\ ret[k].error = "") =>
                  ret[k].stats = StatisticsOf(Alone(k), peak1[k], peak2[k]))

\* C10 witness: both engines computed over the shared dictionary, the second
\* having started its lookups while the first was in the middle of its own,
\* with different verdicts.
C10_Witness ==
    /\ ~given.none
    /\ eng[1].calculated /\ eng[2].calculated
    /\ eng[1].cacheRef = "given"
    /\ eng[1].is_clear # eng[2].is_clear
    /\ ret[1].op = "get_statistics"
    /\ ret[2].op = "is_line_of_sight_clear"

\* Both engines are in the middle of their lookups at once.
C10_Interleaved ==
    /\ work[1].pc = "lookup" /\ work[1].s \in 2..NUM_SAMPLES
    /\ work[2].pc = "lookup" /\ work[2].s \in 2..NUM_SAMPLES
    /\ eng[1].cacheRef = "given"

---------------------------------------------------------------------------
(* PeakPairFinder *)

\* _calculate_distance_km, in hectometres
CalculateDistanceKm(p, q) == Geodesic(p, q)

\* Mutant of InBand: the upper bound written with < instead of <=.
InBandOpenAbove(min_distance_km, distance, max_distance_km) ==
    min_distance_km <= distance /\ distance < max_distance_km

\* min_distance_km <= distance <= max_distance_km
InBand(min_distance_km, distance, max_distance_km) ==
    min_distance_km <= distance /\ distance <= max_distance_km

\* The two nested loops of get_peak_pairs, from index pair (i, j) on.
RECURSIVE PairLoop(_, _, _, _, _, _)
PairLoop(peaks, i, j, pairs, min_distance_km, max_distance_km) ==
    IF i > Len(peaks) THEN pairs
    ELSE IF j > Len(peaks)
    THEN PairLoop(peaks, i + 1, i + 2, pairs, min_distance_km, max_distance_km)
    ELSE LET distance == CalculateDistanceKm(peaks[i], peaks[j])
         IN  PairLoop(peaks, i, j + 1,
                      IF InBand(min_distance_km, distance, max_distance_km)
                      THEN Append(pairs, <<peaks[i], peaks[j]>>)
                      ELSE pairs,
                      min_distance_km, max_distance_km)

\* _load_peaks: the API is asked once per finder
LoadPeaks(f) ==
    IF ~f.loaded THEN [f EXCEPT !.peaks = f.api, !.loaded = TRUE] ELSE f

\* get_peak_pairs(min_distance_km, max_distance_km), called once on a finder
GetPeakPairs(min_distance_km, max_distance_km) ==
    /\ ~pairsOut.called
    /\ finderPeaks' = LoadPeaks(finderPeaks)
    /\ band' = [min |-> min_distance_km, max |-> max_distance_km]
    /\ pairsOut' = [called |-> TRUE, error |-> "",
                    pairs |-> PairLoop(finderPeaks'.peaks, 1, 2, <<>>,
                                       min_distance_km, max_distance_km)]
    /\ UNCHANGED <<engineVars, batchVars>>

\* Lists of at most n peaks
RECURSIVE PeakLists(_)
PeakLists(n) ==
    IF n = 0 THEN {<<>>}
    ELSE PeakLists(n - 1)
         \cup {Append(l, p) : l \in {m \in PeakLists(n - 1) : Len(m) = n - 1},
                              p \in Peaks}

\* Band limits, in hectometres: below, at and above the distances between
\* the peaks (0, 33, 1106, 3340, 4446 among them).
BandLimits == {0, 33, 34, 3340, 4446, 6000}

EngineIdle ==
    EngineInit({1}, { <<p, q>> \in Peaks \X Peaks :
                         p.name = "Alpha Peak" /\ q.name = "Bravo Peak" },
               {NoneArg}, {NoFile})

FinderInit ==
    /\ finderPeaks \in {[api |-> l, peaks |-> <<>>, loaded |-> FALSE] :
                          l \in PeakLists(MaxPeaks)}
    /\ band = [min |-> 0, max |-> 0]
    /\ pairsOut = [called |-> FALSE, error |-> "", pairs |-> <<>>]
    /\ EngineIdle
    /\ profileDir
    /\ BatchIdle

FinderNext ==
    \E mn \in BandLimits, mx \in BandLimits : GetPeakPairs(mn, mx)

FinderSpec == FinderInit /\ [][FinderNext]_vars

\* Index pairs (i, j), i < j, of peaks whose distance lies in the band.
Qualifying ==
    { ij \in (1..Len(finderPeaks.peaks)) \X (1..Len(finderPeaks.peaks)) :
        /\ ij[1] < ij[2]
        /\ band.min <= Geodesic(finderPeaks.peaks[ij[1]], finderPeaks.peaks[ij[2]])
        /\ Geodesic(finderPeaks.peaks[ij[1]], finderPeaks.peaks[ij[2]]) <= band.max }

LexLess(a, b) == a[1] < b[1] \/ (a[1] = b[1] /\ a[2] < b[2])

\* C2: the result is the peaks of the qualifying index pairs, each once, in
\* lexicographic order of (i, j): its n-th element is the pair with n-1
\* qualifying pairs before it.
C2_PairsExactlyInBandInOrder ==
    pairsOut.called =>
        /\ Len(pairsOut.pairs) = Cardinality(Qualifying)
        /\ \A ij \in Qualifying :
              LET n == 1 + Cardinality({b \in Qualifying : LexLess(b, ij)})
              IN  pairsOut.pairs[n] =
                     <<finderPeaks.peaks[ij[1]], finderPeaks.peaks[ij[2]]>>

\* C2 witness: a result of two pairs, one exactly at the lower limit and one
\* exactly at the upper limit, with a third pair left out.
C2_Witness ==
    /\ pairsOut.called
    /\ Len(pairsOut.pairs) = 2
    /\ Len(finderPeaks.peaks) = 3
    /\ \E ij \in Qualifying :
          Geodesic(finderPeaks.peaks[ij[1]], finderPeaks.peaks[ij[2]]) = band.min
    /\ \E ij \in Qualifying :
          Geodesic(finderPeaks.peaks[ij[1]], finderPeaks.peaks[ij[2]]) = band.max
    /\ band.min < band.max

\* C6: a call with min_distance_km > max_distance_km is rejected with a
\* configuration error.
C6_InvertedBandRejected ==
    (pairsOut.called /\ band.min > band.max) =>
        pairsOut.error = "ConfigurationError"

---------------------------------------------------------------------------
(* main.py: the batch over all pairs *)

\* process_peak_pair(peak1, peak2, cache) in a worker: what future.result()
\* returns, or the exception it re-raises.
ProcessPeakPair(p, q, cache, d, dirExists) ==
    LET g == DictArg(cache)
        calculator == Construct(g, d)
        e == EnsureCalculated(calculator, p, q, g, <<>>).eng
    IN  IF e.is_clear /\ ~dirExists
        THEN [error |-> "FileNotFoundError", stats |-> NoStats, is_clear |-> FALSE]
        ELSE [error |-> "", stats |-> StatisticsOf(e, p, q), is_clear |-> e.is_clear]

\* A worker process that died before returning.
BrokenWorker == [error |-> "BrokenProcessPool", stats |-> NoStats, is_clear |-> FALSE]

\* Mutant of AggregateResult: no try / except around future.result(), the
\* exception leaves the loop.
AggregateResultNoCatch(t, outcome) ==
    IF outcome.error = ""
    THEN [t EXCEPT !.lines = @ \o <<outcome.stats, NoStats>>,
                   !.clear = IF outcome.is_clear THEN @ + 1 ELSE @,
                   !.blocked = IF outcome.is_clear THEN @ ELSE @ + 1]
    ELSE [t EXCEPT !.aborted = TRUE]

\* The try / except of the loop body, on
\* t = [lines, clear, blocked, aborted]
AggregateResult(t, outcome) ==
    IF outcome.error = ""
    THEN [t EXCEPT !.lines = @ \o <<outcome.stats, NoStats>>,
                   !.clear = IF outcome.is_clear THEN @ + 1 ELSE @,
                   !.blocked = IF outcome.is_clear THEN @ ELSE @ + 1]
    ELSE [t EXCEPT !.blocked = @ + 1]

\* executor.submit(process_peak_pair, peak1, peak2, cache): the arguments are
\* fixed at submission, and the file and the directory the call reads do not
\* change during the batch; task holds what the call ends with in a worker
\* that survives.
Submit(pair, cache, d, dirExists) ==
    [state |-> "pending",
     task |-> ProcessPeakPair(pair[1], pair[2], cache, d, dirExists),
     outcome |-> BrokenWorker,
     yielded |-> 0]

\* A submitted task finishes in its worker, normally or not; as_completed
\* will yield it after those that finished before.
TaskCompletes(i, broken) ==
    /\ bpc = "loop"
    /\ i \in DOMAIN fut
    /\ fut[i].state = "pending"
    /\ fut' = [fut EXCEPT ![i].state = "finished",
                          ![i].outcome = IF broken THEN BrokenWorker ELSE fut[i].task]
    /\ doneOrder' = Append(doneOrder, i)
    /\ UNCHANGED <<bpairs, bcache, statistics_lines, clear_count, blocked_count,
                   completed_count, bpc>>
    /\ UNCHANGED <<engineVars, finderVars>>

\* One iteration of "for future in as_completed(future_to_pair)".
AggregateNext ==
    /\ bpc = "loop"
    /\ completed_count < Len(doneOrder)
    /\ LET i == doneOrder[completed_count + 1]
           t == AggregateResult([lines |-> statistics_lines, clear |-> clear_count,
                                 blocked |-> blocked_count, aborted |-> FALSE],
                                fut[i].outcome)
       IN  /\ completed_count' = completed_count + 1
           /\ fut' = [fut EXCEPT ![i].yielded = @ + 1]
           /\ statistics_lines' = t.lines
           /\ clear_count' = t.clear
           /\ blocked_count' = t.blocked
           /\ bpc' = IF t.aborted THEN "aborted" ELSE bpc
    /\ UNCHANGED <<bpairs, bcache, doneOrder>>
    /\ UNCHANGED <<engineVars, finderVars>>

\* The loop ends when every future has been yielded; Step 6 then opens
\* elevation_profiles/statistics.txt for writing.
SaveStatistics ==
    /\ bpc = "loop"
    /\ \A i \in DOMAIN fut : fut[i].yielded > 0
    /\ bpc' = IF profileDir THEN "done" ELSE "crashed"
    /\ UNCHANGED <<bpairs, bcache, fut, doneOrder, statistics_lines, clear_count,
                   blocked_count, completed_count>>
    /\ UNCHANGED <<engineVars, finderVars>>

BatchPeaks == {p \in Peaks : p.name \in {"Alpha Peak", "Bravo Peak", "Foxtrot"}}

\* Steps 3 to 5 of main.py up to the submission of all tasks.
BatchInit ==
    /\ EngineInit({1}, { <<p, q>> \in Peaks \X Peaks :
                            p.name = "Alpha Peak" /\ q.name = "Bravo Peak" },
                  {NoneArg}, {File(RidgeCache)})
    /\ bcache = disk.map
    /\ \E l \in {m \in PeakLists(MaxPeaks) : \A n \in DOMAIN m : m[n] \in BatchPeaks} :
          /\ finderPeaks = [api |-> l, peaks |-> l, loaded |-> TRUE]
          /\ bpairs = PairLoop(l, 1, 2, <<>>, MAIN_MIN_DISTANCE, MAIN_MAX_DISTANCE)
    /\ band = [min |-> MAIN_MIN_DISTANCE, max |-> MAIN_MAX_DISTANCE]
    /\ pairsOut = [called |-> TRUE, error |-> "", pairs |-> bpairs]
    /\ fut = [i \in DOMAIN bpairs |-> Submit(bpairs[i], bcache, disk, profileDir)]
    /\ doneOrder = <<>>
    /\ statistics_lines = <<>>
    /\ clear_count = 0
    /\ blocked_count = 0
    /\ completed_count = 0
    /\ bpc = "loop"

BatchNext ==
    \/ \E i \in DOMAIN fut, broken \in BOOLEAN : TaskCompletes(i, broken)
    \/ AggregateNext
    \/ SaveStatistics

\* Every submitted task finishes in the pool, and the driver's loop keeps
\* running.
BatchSpec == BatchInit /\ [][BatchNext]_vars /\ WF_vars(BatchNext)

LoopOver == bpc \in {"done", "crashed"}

Succeeded(i) == fut[i].state = "finished" /\ fut[i].outcome.error = ""

\* C9: whatever the completion order and whichever tasks fail, the loop never
\* aborts and ends; by then every submitted pair was processed exactly once,
\* completed_count is the number of pairs, and the tallies are determined by
\* the tasks' outcomes alone.
C9_BatchSurvivesFailures ==
    /\ [](bpc # "aborted")
    /\ <>LoopOver
    /\ [](LoopOver =>
            /\ completed_count = Len(bpairs)
            /\ \A i \in DOMAIN fut : fut[i].yielded = 1
            /\ clear_count =
                 Cardinality({i \in DOMAIN fut : Succeeded(i) /\ fut[i].outcome.is_clear})
            /\ clear_count + blocked_count = Len(bpairs))

\* C9 witness: a finished batch of at least two pairs in which the second
\* submitted task completed first, one task failed and one succeeded.
C9_Witness ==
    /\ bpc = "done"
    /\ Len(bpairs) >= 2
    /\ doneOrder[1] = 2
    /\ \E i \in DOMAIN fut : fut[i].outcome.error # ""
    /\ \E i \in DOMAIN fut : Succeeded(i)

---------------------------------------------------------------------------
(* Two evaluations over one dictionary: a pair and its reverse, or a pair  *)
(* and the same pair with one endpoint raised                              *)

\* Peaks surveyed twice with different elevations, next to two of Peaks.
\* Every elevation is a float (Fl leaves it as it is).
RelPeaks ==
    { Peak("Golf Summit",  0,      0, 88480),
      Peak("Golf Summit",  0,      0, 88482),
      Peak("Hotel Hill",   450000, 0, 1376),
      Peak("Hotel Hill",   450000, 0, 1377),
      Peak("Juliet Shore", 0,      0, -10),
      Peak("Juliet Shore", 0,      0, -5),
      Peak("Kilo Knoll",   20000,  0, 100) }
      \cup {p \in Peaks : p.name \in {"Alpha Peak", "Bravo Peak"}}

\* Pairs worth evaluating: two different places of one region.
RelRegions ==
    { {"Golf Summit", "Hotel Hill"}, {"Juliet Shore", "Kilo Knoll"},
      {"Alpha Peak", "Bravo Peak"} }

RelPairs ==
    { <<p, q>> \in RelPeaks \X RelPeaks :
        p.name # q.name /\ {p.name, q.name} \in RelRegions }

\* Grid entries between Juliet Shore and Kilo Knoll, decoded from JSON
\* integers: 50 m below the datum.
ShoreIntCache ==
    [k \in {MkKey(0, 0), MkKey(10000, 0), MkKey(20000, 0)} |-> I(-500)]

SamePlace(a, b) == a.name = b.name /\ a.lat = b.lat /\ a.lon = b.lon

\* Engine j evaluates the pair of engine i with one endpoint higher and the
\* other endpoint as it is.
Raised(i, j) ==
    \/ /\ SamePlace(peak1[i], peak1[j])
       /\ peak1[j].elevation_m > peak1[i].elevation_m
       /\ peak2[j] = peak2[i]
    \/ /\ SamePlace(peak2[i], peak2[j])
       /\ peak2[j].elevation_m > peak2[i].elevation_m
       /\ peak1[j] = peak1[i]

\* Engine j evaluates the pair of engine i in the other direction.
Reversed(i, j) == peak1[j] = peak2[i] /\ peak2[j] = peak1[i]

RelInit ==
    /\ EngineInit({1, 2}, RelPairs,
                  {NoneArg, DictArg(ShoreIntCache), DictArg(RidgeCache)},
                  {NoFile})
    /\ Reversed(1, 2) \/ Raised(1, 2)
    /\ profileDir
    /\ FinderIdle
    /\ BatchIdle

RelNext ==
    \E k \in {1, 2} :
        \/ IsLineOfSightClear(k)
        \/ GetStatistics(k)

RelSpec == RelInit /\ [][RelNext]_vars

\* Both engines hold the same terrain at the interior stations.
SameInterior(i, j) ==
    \A s \in 2..(NUM_SAMPLES - 1) :
        eng[i].terrain_array.a[s] = eng[j].terrain_array.a[s]

\* C11: when a pair is evaluated clear, the same pair with one endpoint
\* raised, the other endpoint and the interior terrain unchanged, evaluated
\* over the same dictionary, is clear as well.
C11_RaisingEndpointKeepsClear ==
    \A i \in Engines, j \in Engines :
        ( /\ eng[i].calculated /\ eng[j].calculated
          /\ Raised(i, j)
          /\ SameInterior(i, j)
          /\ eng[i].is_clear ) => eng[j].is_clear

\* C12: a pair and its reverse, evaluated over the same dictionary, report
\* the same distance and the same verdict, and the terrain sequence and the
\* sight-line sequence of one are those of the other in reverse order.
C12_ReversedPairSymmetric ==
    \A i \in Engines, j \in Engines :
        (eng[i].calculated /\ eng[j].calculated /\ Reversed(i, j)) =>
            /\ eng[j].distance_km = eng[i].distance_km
            /\ eng[j].is_clear = eng[i].is_clear
            /\ \A s \in Stations :
                  /\ eng[j].terrain_array.a[s]
                        = eng[i].terrain_array.a[NUM_SAMPLES + 1 - s]
                  /\ eng[j].los_line[s] = eng[i].los_line[NUM_SAMPLES + 1 - s]

\* The reported distance and the verdict alone (first half of C12).
C12_SameDistanceAndVerdict ==
    \A i \in Engines, j \in Engines :
        (eng[i].calculated /\ eng[j].calculated /\ Reversed(i, j)) =>
            /\ eng[j].distance_km = eng[i].distance_km
            /\ eng[j].is_clear = eng[i].is_clear

\* C13: on a path of length D > 0 the stations are equally spaced from 0 to
\* D, and at the station at distance d the sight line is the straight line
\* elevA + (elevB - elevA) * d / D minus the drop d * (D - d) / (2 * R_effective)
\* with R_effective = 6371 km * 4/3; the drop is never negative and is zero
\* at both ends, where the sight line is elevA and elevB.
\* (In a los_line element the drop is BulgeK * dsq * m / (BulgeY * (N-1)),
\* subtracted from sn / (N-1) by TerrainLeLos.)
C13_SightLineFormula ==
    \A k \in Engines :
        (eng[k].calculated /\ eng[k].distance_km > 0) =>
            \A s \in Stations :
                LET los == eng[k].los_line[s]
                    D == eng[k].distance_km
                IN  /\ eng[k].distances[s] = D * (s - 1)
                    /\ ~los.nan
                    /\ los.sn = peak1[k].elevation_m * (NUM_SAMPLES - 1)
                                  + (peak2[k].elevation_m - peak1[k].elevation_m)
                                      * (s - 1)
                    /\ los.dsq = D * D
                    /\ los.m = (s - 1) * (NUM_SAMPLES - s)
                    /\ BulgeK * los.m >= 0
                    /\ BulgeY = 2 * REFRACTION_NUM * R_EARTH_KM * (NUM_SAMPLES - 1)
                    /\ s \in {1, NUM_SAMPLES} => los.m = 0
                    /\ s = 1 =>
                          los.sn = peak1[k].elevation_m * (NUM_SAMPLES - 1)
                    /\ s = NUM_SAMPLES =>
                          los.sn = peak2[k].elevation_m * (NUM_SAMPLES - 1)

\* The part of C13 on the drop and on the first station.
C13_DropAndFirstStation ==
    \A k \in Engines :
        (eng[k].calculated /\ eng[k].distance_km > 0) =>
            \A s \in Stations :
                LET los == eng[k].los_line[s]
                IN  /\ ~los.nan
                    /\ los.dsq = eng[k].distance_km * eng[k].distance_km
                    /\ los.m = (s - 1) * (NUM_SAMPLES - s)
                    /\ s \in {1, NUM_SAMPLES} => los.m = 0
                    /\ s = 1 =>
                          los.sn = peak1[k].elevation_m * (NUM_SAMPLES - 1)

\* C14: when the loop is over, blocked_count is the number of pairs evaluated
\* successfully with a false verdict and clear_count the number evaluated
\* successfully with a true verdict; a failed pair is in neither.
C14_FailuresNotBlocked ==
    LoopOver =>
        /\ blocked_count =
             Cardinality({i \in DOMAIN fut : Succeeded(i) /\ ~fut[i].outcome.is_clear})
        /\ clear_count =
             Cardinality({i \in DOMAIN fut : Succeeded(i) /\ fut[i].outcome.is_clear})

====
